---- MODULE Spec2Model ----
(***************************************************************************)
(* Vision3D: the photogrammetry pipeline (generateModel) in its two        *)
(* implementations, the OpenCV Structure-from-Motion path and the          *)
(* from-scratch heuristic path.                                            *)
(*                                                                         *)
(* Conventions of the model                                                *)
(*  - A list whose entries are equal in everything the code reads is kept  *)
(*    run-length encoded: a sequence of groups, each with a count n.       *)
(*    matches, the inlier columns of points4D and points3D are such lists. *)
(*  - THREE.Matrix3 is kept as its `elements` array (9 numbers, 1-based    *)
(*    here, 0-based in the source), which THREE stores column-major.       *)
(*  - A rational number is kept as numerator and denominator; homogeneous  *)
(*    weights are counted in units of 1e-6.                                *)
(***************************************************************************)
EXTENDS Integers, Sequences, FiniteSets, TLC

(***************************************************************************)
(* Bounds of the model                                                     *)
(***************************************************************************)
MaxImages == 3

\* the most files one upload request carries
MaxFiles == 4

(***************************************************************************)
(* Program constants                                                       *)
(***************************************************************************)
MinTotalMatches == 50
MinPairMatches == 50
MinInliers == 50
MinInlierCoords == 10
RatioNum == 75
RatioDen == 100
MaxHammingDistance == 40
MinCrossCheck == 20
MaxPairMatches == 200
ReprojThreshold == 2
WEpsilon == 1
FocalNum == 12
FocalDen == 10
BoxVertexFloats == 72
BoxFaceIndices == 36
HRatioNum == 7
HRatioDen == 10
HMaxMatches == 1000
HDefaultPoints == 800
HMinPoints == 500
HMaxPoints == 2000
HDensityScale == 3000

Undefined == -1
Infinity == 1000000

\* new cv.ORB_create(1000, ...): at most 1000 keypoints per image
MaxKeypoints == 1000

InsufficientMsg == "Insufficient feature matches for reconstruction"
NoPairMsg == "Could not find suitable image pair for initialization"
TwoViewFailedMsg == "Two-view reconstruction failed"

(***************************************************************************)
(* Small arithmetic helpers                                                *)
(***************************************************************************)
Abs(x) == IF x < 0 THEN -x ELSE x

Min(a, b) == IF a < b THEN a ELSE b

Max(a, b) == IF a > b THEN a ELSE b

RECURSIVE SumN(_)
SumN(s) == IF s = <<>> THEN 0 ELSE Head(s).n + SumN(Tail(s))

(***************************************************************************)
(* THREE.Matrix3 / THREE.Vector3 as the source uses them                   *)
(***************************************************************************)
\* Matrix3.set takes its arguments row by row and stores them column-major.
Matrix3Set(n11, n12, n13, n21, n22, n23, n31, n32, n33) ==
  <<n11, n21, n31, n12, n22, n32, n13, n23, n33>>

Matrix3Identity == Matrix3Set(1, 0, 0, 0, 1, 0, 0, 0, 1)

\* Matrix3.fromArray copies the array into elements as it is.
Matrix3FromArray(a) == a

Matrix3Transpose(m) == <<m[1], m[4], m[7], m[2], m[5], m[8], m[3], m[6], m[9]>>

\* Vector3.applyMatrix3: e[0]x + e[3]y + e[6]z, ...
ApplyMatrix3(v, m) ==
  << m[1] * v[1] + m[4] * v[2] + m[7] * v[3],
     m[2] * v[1] + m[5] * v[2] + m[8] * v[3],
     m[3] * v[1] + m[6] * v[2] + m[9] * v[3] >>

VSub(a, b) == <<a[1] - b[1], a[2] - b[2], a[3] - b[3]>>

VAdd(a, b) == <<a[1] + b[1], a[2] + b[2], a[3] + b[3]>>

VNeg(a) == <<-a[1], -a[2], -a[3]>>

\* The product of a matrix given row by row (as cv.Mat.data64F holds it)
\* with a vector: what R*X means for the R that cv.recoverPose returned.
RowMajorTimes(r, v) ==
  << r[1] * v[1] + r[2] * v[2] + r[3] * v[3],
     r[4] * v[1] + r[5] * v[2] + r[6] * v[3],
     r[7] * v[1] + r[8] * v[2] + r[9] * v[3] >>

(***************************************************************************)
(* estimateCameraIntrinsics: fx = 1.2 w, fy = fx, cx = w/2, cy = h/2        *)
(***************************************************************************)
estimateCameraIntrinsics(width, height) ==
  LET fx == (width * FocalNum) \div FocalDen
      fy == fx
      cx == width \div 2
      cy == height \div 2
  IN  Matrix3Set(fx, 0, cx,
                 0, fy, cy,
                 0, 0, 1)

\* The camera matrix handed to OpenCV: elements[0..8] read as rows.
CameraMatrixK(intrinsics) == intrinsics

(***************************************************************************)
(* Camera poses of the two-view reconstruction                             *)
(***************************************************************************)
Camera1(intrinsics) ==
  [ position |-> <<0, 0, 0>>,
    rotation |-> Matrix3Identity,
    translation |-> <<0, 0, 0>>,
    intrinsicMatrix |-> intrinsics,
    isValid |-> TRUE,
    reprojectionError |-> 0 ]

\* RData is R.data64F (row by row), tData is t.data64F.
Camera2(Rdata64F, tdata64F, intrinsics) ==
  LET RMat == Matrix3FromArray(Rdata64F)
      RTMat == Matrix3Transpose(RMat)
      tVec == tdata64F
      camera2Position == ApplyMatrix3(VNeg(tVec), RTMat)
  IN  [ position |-> camera2Position,
        rotation |-> RMat,
        translation |-> tVec,
        intrinsicMatrix |-> intrinsics,
        isValid |-> TRUE,
        reprojectionError |-> 0 ]

(***************************************************************************)
(* projectPoint and calculateReprojectionError                             *)
(***************************************************************************)
\* The projection is (xn/den, yn/den).
projectPoint(point3D, camera, intrinsics) ==
  LET relativePoint == VSub(point3D, camera.position)
      camPoint == ApplyMatrix3(relativePoint, camera.rotation)
      fx == intrinsics[1]
      fy == intrinsics[5]
      cx == intrinsics[3]
      cy == intrinsics[6]
  IN  [ xn |-> camPoint[1] * fx + cx * camPoint[3],
        yn |-> camPoint[2] * fy + cy * camPoint[3],
        den |-> camPoint[3] ]

\* The ray through an image point: the origin is the camera position; the
\* direction is ((x - cx)/fx, (y - cy)/fy, 1) rotated by the transpose of the
\* camera rotation, given here times fx*fy instead of normalised.
unprojectPoint(point, camera, intrinsics) ==
  LET fx == intrinsics[1]
      fy == intrinsics[5]
      cx == intrinsics[3]
      cy == intrinsics[6]
      direction == << (point[1] - cx) * fy, (point[2] - cy) * fx, fx * fy >>
  IN  [ origin |-> camera.position,
        direction |-> ApplyMatrix3(direction, Matrix3Transpose(camera.rotation)) ]

\* The squared distance between a projection and a feature point is sq/den^2.
SquaredPixelError(proj, pt) ==
  (proj.xn - pt[1] * proj.den) * (proj.xn - pt[1] * proj.den)
  + (proj.yn - pt[2] * proj.den) * (proj.yn - pt[2] * proj.den)

\* (sqrt(sq1)/|den1| + sqrt(sq2)/|den2|) / 2
calculateReprojectionError(point3D, match, camera1, camera2, intrinsics) ==
  LET proj1 == projectPoint(point3D, camera1, intrinsics)
      proj2 == projectPoint(point3D, camera2, intrinsics)
  IN  [ sq1 |-> SquaredPixelError(proj1, match.point1), den1 |-> proj1.den,
        sq2 |-> SquaredPixelError(proj2, match.point2), den2 |-> proj2.den ]

\* sqrt(a) + sqrt(b) < c, for naturals a, b and an integer c
SqrtSumLess(a, b, c) ==
  /\ c > 0
  /\ a < c * c
  /\ b < c * c
  /\ \/ a = 0
     \/ b = 0
     \/ /\ c * c + a - b > 0
        /\ 4 * c * c * a < (c * c + a - b) * (c * c + a - b)

\* error < threshold; a zero denominator makes the error Infinity or NaN,
\* which is below no threshold.
ErrorBelow(e, threshold) ==
  /\ e.den1 # 0
  /\ e.den2 # 0
  /\ SqrtSumLess(e.den2 * e.den2 * e.sq1, e.den1 * e.den1 * e.sq2,
                 2 * threshold * Abs(e.den1 * e.den2))

(***************************************************************************)
(* State of one invocation of generateModel                                *)
(***************************************************************************)
VARIABLES
  impl,            \* "opencv" (the SfM path) or "heuristic" (lib/photogrammetry.ts)
  cvReady,         \* window.cvReady
  images,          \* processedImages: per image "ok", "undecodable" or "unreadable"
  pc,              \* where the invocation is
  nextImage,       \* the extractor's loop index i (0-based)
  imageFeatures,   \* the extractor's output so far
  pairI,           \* the matcher's outer loop index i (0-based)
  pairJ,           \* the matcher's inner loop index j
  matches,         \* the matcher's output so far
  intrinsics,      \* the THREE.Matrix3 of estimateCameraIntrinsics, <<>> before
  initPair,        \* the result of findBestInitialPair
  essential,       \* what cv.findEssentialMat returned: "none", "ok", "empty", "throws"
  RData,           \* R.data64F after cv.recoverPose, <<>> before
  tData,           \* t.data64F after cv.recoverPose, <<>> before
  inlierCount,     \* the return value of cv.recoverPose
  cameras,         \* camera1 and camera2 once assembled
  points4D,        \* the columns cv.triangulatePoints returned, <<>> before
  reconstruction,  \* the ReconstructionResult of performSfMReconstruction
  model,           \* the Generated3DModel the promise resolved to
  outcome,         \* "running", "Succeeded", "FallenBack", "Rejected"
  hPointCount,     \* heuristic path: the number of points triangulatePoints returned
  logged,          \* the stage-level diagnostics written to the console, in order
  trace,           \* history: the steps executed, in order
  handles,         \* the native (cv.*) objects created and not yet deleted, by name
  knnResults,      \* what matcher.knnMatch answered in the matcher's last iteration
  reqFiles,        \* server: req.files of a POST /api/upload-images
  response,        \* server: the status and body the route answered with
  processCalls,    \* server: how many times processImages was invoked
  storeImages,     \* useVision3D: images, each File named by a number
  processedImages, \* useVision3D: processedImages, each entry named by its original
  generatedModel,  \* useVision3D: generatedModel
  isProcessing,    \* useVision3D: isProcessing
  isGenerating,    \* useVision3D: isGenerating
  currentStep,     \* useVision3D: currentStep
  activeTab,       \* Vision3D: the tab whose content is mounted
  procRuns,        \* the calls of processImages so far, in order of their start
  genRuns,         \* the calls of generate3DModel so far, in order of their start
  nextFile,        \* the number the next File added gets
  sinceReset       \* history: reset was called and no image was added after it

vars == << impl, cvReady, images, pc, nextImage, imageFeatures, pairI, pairJ, matches,
           intrinsics, initPair, essential, RData, tData, inlierCount, cameras,
           points4D, reconstruction, model, outcome, hPointCount, logged, trace, handles,
           knnResults,
           reqFiles, response, processCalls,
           storeImages, processedImages, generatedModel, isProcessing, isGenerating,
           currentStep, activeTab, procRuns, genRuns, nextFile, sinceReset >>

(***************************************************************************)
(* Inputs the environment may supply                                       *)
(***************************************************************************)
\* "undecodable": the Image fires onerror; "unreadable": it loads but the
\* canvas cannot be read (cv.imread / getImageData throw). loadImageToMat
\* rejects in both cases, so the OpenCV path is given the first only.
ImageStatus(implementation) ==
  IF implementation = "opencv" THEN {"ok", "undecodable"}
  ELSE {"ok", "undecodable", "unreadable"}

\* width and height of the first image after loadImageToMat's scaling
ImageDims == { <<10, 30>>, <<20, 30>> }

\* what knnMatch may return for a run of n query descriptors: size neighbours
\* each, the nearest at distance d1, the second at d2, for the query
\* descriptors from queryIdx on and the train descriptors from trainIdx on
KnnGroups ==
  [ n : {30, 60}, size : {1, 2}, d1 : {10, 45}, d2 : {12, 20},
    queryIdx : {0}, trainIdx : {0} ]

\* the entries of knnMatch(j, i), again run-length encoded: n query
\* descriptors of image j from queryIdx on, the nearest neighbour of each the
\* descriptor of image i at the same offset from trainIdx on
BackGroups(g) ==
  { <<>>, << [ n |-> g.n, size |-> 2, queryIdx |-> g.trainIdx, trainIdx |-> g.queryIdx ] >> }

\* R.data64F: the identity and the quarter turn about the x axis
Rotations == { <<1, 0, 0, 0, 1, 0, 0, 0, 1>>, <<1, 0, 0, 0, 0, -1, 0, 1, 0>> }

Translations == { <<0, 0, 1>>, <<1, 0, 0>> }

\* feature locations (pixels) of the matched keypoints
FeaturePoints == { <<0, 0>>, <<0, 24>> }

\* the points cv.triangulatePoints may place a correspondence at
Positions == { <<0, -1, 4>>, <<0, 0, 4>>, <<0, -1, -1>>, <<0, 0, -1>> }

\* the homogeneous weights, in units of 1e-6: zero, the epsilon itself, above it
Weights == {0, 1, 2}

\* one column (X, Y, Z, W) of points4D, with X, Y, Z in the units of W, and
\* the match it belongs to
Columns ==
  { [ X |-> p[1] * w, Y |-> p[2] * w, Z |-> p[3] * w, W |-> w,
      point1 |-> <<0, 0>>, point2 |-> q ] :
    p \in Positions, w \in { v \in Weights : v > WEpsilon }, q \in FeaturePoints }
  \cup
  \* a column whose weight is within the epsilon is dropped before its position
  \* or its match is looked at: one position and one match stand for all
  { [ X |-> 0, Y |-> 0, Z |-> 4 * w, W |-> w,
      point1 |-> <<0, 0>>, point2 |-> <<0, 0>> ] :
    w \in { v \in Weights : v <= WEpsilon } }

\* the values Math.random() may give the red channel of a point, in tenths
Shades == {7, 9}

\* the columns with a regular weight in front of camera 1
RegularColumns == { c \in Columns : c.W = 2 /\ c.Z > 0 }

\* the descriptors of one image's features in the heuristic path
FeatureLists == { <<>>, <<[x |-> 1, y |-> 1, descriptor |-> 3]>>,
                  <<[x |-> 1, y |-> 1, descriptor |-> 3],
                    [x |-> 2, y |-> 2, descriptor |-> 10]>> }

\* the share of opaque pixels of the images, in thousandths
Densities == {0, 200, 500, 1000}

NoPair == [image1 |-> Undefined, image2 |-> Undefined, matches |-> <<>>]

NoResult == [success |-> FALSE, errorMessage |-> "", points3D |-> <<>>, cameras |-> <<>>]

\* no request has reached the server
\* knn: the DMatchVectorVector of knnMatch(i, j); back: that of knnMatch(j, i)
\* generatedModel: null
NoGeneratedModel == [present |-> FALSE, sourceImages |-> <<>>]

\* the initial state of the useVision3D store, with the upload tab open
StoreInit ==
  /\ storeImages = <<>>
  /\ processedImages = <<>>
  /\ generatedModel = NoGeneratedModel
  /\ isProcessing = FALSE
  /\ isGenerating = FALSE
  /\ currentStep = ""
  /\ activeTab = "upload"
  /\ procRuns = <<>>
  /\ genRuns = <<>>
  /\ nextFile = 1
  /\ sinceReset = FALSE

\* i, j: the positions of the two feature sets in imageFeatures
NoKnn == [i |-> Undefined, j |-> Undefined, knn |-> <<>>, back |-> <<>>]

NoRequest == [present |-> FALSE, files |-> <<>>]

NoResponse == [status |-> 0, error |-> ""]

NoModel == [geometry |-> "none", vertices |-> 0, faces |-> 0, sourceImageCount |-> Undefined]

RECURSIVE SeqsUpTo(_, _)
SeqsUpTo(S, k) ==
  IF k = 0 THEN { <<>> }
  ELSE LET shorter == SeqsUpTo(S, k - 1)
       IN  shorter \cup { Append(s, x) : s \in { t \in shorter : Len(t) = k - 1 }, x \in S }

Init ==
  /\ impl \in {"opencv", "heuristic"}
  /\ cvReady \in BOOLEAN
  /\ images \in SeqsUpTo(ImageStatus(impl), MaxImages)
  /\ pc = "start"
  /\ nextImage = 0
  /\ imageFeatures = <<>>
  /\ pairI = 0
  /\ pairJ = 1
  /\ matches = <<>>
  /\ intrinsics = <<>>
  /\ initPair = NoPair
  /\ essential = "none"
  /\ RData = <<>>
  /\ tData = <<>>
  /\ inlierCount = 0
  /\ cameras = <<>>
  /\ points4D = <<>>
  /\ reconstruction = NoResult
  /\ model = NoModel
  /\ outcome = "running"
  /\ hPointCount = 0
  /\ logged = <<>>
  /\ trace = <<>>
  /\ handles = {}
  /\ knnResults = NoKnn
  /\ reqFiles = NoRequest
  /\ response = NoResponse
  /\ processCalls = 0
  /\ StoreInit

(***************************************************************************)
(* The models generateModel can return                                     *)
(***************************************************************************)
\* a box with its 8 corners shared between the faces
createEmptyModel_SharedCorners ==
  [ geometry |-> "BoxGeometry", vertices |-> 3 * 8,
    faces |-> BoxFaceIndices, sourceImageCount |-> Undefined ]

\* new THREE.BoxGeometry(1, 1, 1): 24 vertices (72 floats), 12 triangles
createEmptyModel ==
  [ geometry |-> "BoxGeometry", vertices |-> BoxVertexFloats,
    faces |-> BoxFaceIndices, sourceImageCount |-> Undefined ]

createFallbackModel == createEmptyModel

\* generateMeshFromPointCloud without its points3D.length === 0 branch
generateMeshFromPointCloud_NoEmptyBranch(points3D) ==
  [ geometry |-> "BufferGeometry", vertices |-> 3 * SumN(points3D),
    faces |-> 0, sourceImageCount |-> Undefined ]

generateMeshFromPointCloud(points3D) ==
  IF SumN(points3D) = 0
  THEN createEmptyModel
  ELSE [ geometry |-> "BufferGeometry", vertices |-> 3 * SumN(points3D),
         faces |-> 0, sourceImageCount |-> Undefined ]

\* generateModel's catch block (and its !reconstruction.success branch):
\* log the reason, resolve with the fallback model
ReturnFallback(reason) ==
  /\ pc' = "done"
  /\ outcome' = "FallenBack"
  /\ logged' = Append(logged, reason)
  /\ model' = createFallbackModel

(***************************************************************************)
(* robustFeatureMatching, one image pair                                   *)
(***************************************************************************)
\* Lowe's ratio test and the absolute cutoff on one knnMatch result
PassesRatioTest(g) ==
  /\ g.size >= 2
  /\ g.d1 * RatioDen < RatioNum * g.d2
  /\ g.d1 < MaxHammingDistance

GoodMatches(knnMatches) == SelectSeq(knnMatches, PassesRatioTest)

\* the inner loop over backMatches: some entry with size() > 0 whose
\* first element has queryIdx = match.trainIdx and trainIdx = match.queryIdx
IsBackMatched(g, backMatches) ==
  \E l \in 1..Len(backMatches) :
    /\ backMatches[l].size > 0
    /\ backMatches[l].queryIdx = g.trainIdx
    /\ backMatches[l].trainIdx = g.queryIdx
    /\ backMatches[l].n >= g.n

CrossCheckMatches(goodMatches, backMatches) ==
  IF SumN(goodMatches) > 0
  THEN SelectSeq(goodMatches, LAMBDA g : IsBackMatched(g, backMatches))
  ELSE <<>>

FinalMatches_OneDirectional(goodMatches, crossCheckMatches) == goodMatches

FinalMatches(goodMatches, crossCheckMatches) ==
  IF SumN(crossCheckMatches) > MinCrossCheck THEN crossCheckMatches ELSE goodMatches

\* Array.prototype.sort with (a, b) => a.distance - b.distance (stable)
RECURSIVE InsertByDistance(_, _)
InsertByDistance(sorted, g) ==
  IF sorted = <<>> THEN <<g>>
  ELSE IF g.d1 < Head(sorted).d1 THEN <<g>> \o sorted
  ELSE <<Head(sorted)>> \o InsertByDistance(Tail(sorted), g)

RECURSIVE SortByDistance(_)
SortByDistance(s) ==
  IF s = <<>> THEN <<>>
  ELSE InsertByDistance(SortByDistance(SubSeq(s, 1, Len(s) - 1)), s[Len(s)])

\* slice(0, k) of a run-length encoded list
RECURSIVE Slice(_, _)
Slice(s, k) ==
  IF s = <<>> \/ k <= 0 THEN <<>>
  ELSE IF Head(s).n <= k THEN <<Head(s)>> \o Slice(Tail(s), k - Head(s).n)
  ELSE << [Head(s) EXCEPT !.n = k] >>

BestMatches_Unsorted(finalMatches) ==
  Slice(finalMatches, Min(MaxPairMatches, SumN(finalMatches)))

BestMatches(finalMatches) ==
  Slice(SortByDistance(finalMatches), Min(MaxPairMatches, SumN(finalMatches)))

\* the MatchedFeature entries pushed for image pair (i, j); distance is what
\* confidence = 1 / (1 + distance) is computed from; size and second record
\* the knnMatch result the match was taken from
\* imageFeatures[..].features[idx] for the n indices from idx on: defined
\* when they are below the number of keypoints
HasFeatures(feature, idx, n) == idx >= 0 /\ idx + n <= feature.keypoints

\* the FeaturePoint objects at these indices, named by image and index
FeaturesAt_First(feature, idx) == [ imageIndex |-> feature.imageIndex, index |-> 0 ]

FeaturesAt(feature, idx) == [ imageIndex |-> feature.imageIndex, index |-> idx ]

RECURSIVE ToMatchedFeatures(_, _, _, _)
ToMatchedFeatures(best, feats, i, j) ==
  IF best = <<>> THEN <<>>
  ELSE ( IF /\ HasFeatures(feats[i + 1], Head(best).queryIdx, Head(best).n)
            /\ HasFeatures(feats[j + 1], Head(best).trainIdx, Head(best).n)
         THEN << [ image1Index |-> i, image2Index |-> j, n |-> Head(best).n,
                   distance |-> Head(best).d1, size |-> Head(best).size,
                   second |-> Head(best).d2,
                   point1 |-> FeaturesAt(feats[i + 1], Head(best).queryIdx),
                   point2 |-> FeaturesAt(feats[j + 1], Head(best).trainIdx),
                   queryIdx |-> Head(best).queryIdx,
                   trainIdx |-> Head(best).trainIdx ] >>
         ELSE <<>> )
       \o ToMatchedFeatures(Tail(best), feats, i, j)

robustMatchPair(knnMatches, backMatches, feats, i, j) ==
  LET goodMatches == GoodMatches(knnMatches)
      crossCheckMatches == CrossCheckMatches(goodMatches, backMatches)
      finalMatches == FinalMatches(goodMatches, crossCheckMatches)
  IN  ToMatchedFeatures(BestMatches(finalMatches), feats, i, j)

(***************************************************************************)
(* findBestInitialPair                                                     *)
(***************************************************************************)
PairKey(m) == <<m.image1Index, m.image2Index>>

\* the keys of pairCounts in insertion order
RECURSIVE PairKeys(_, _)
PairKeys(ms, seen) ==
  IF ms = <<>> THEN seen
  ELSE IF \E k \in 1..Len(seen) : seen[k] = PairKey(Head(ms))
       THEN PairKeys(Tail(ms), seen)
       ELSE PairKeys(Tail(ms), Append(seen, PairKey(Head(ms))))

MatchesOfKey(ms, key) == SelectSeq(ms, LAMBDA m : PairKey(m) = key)

RECURSIVE ScanPairs(_, _, _, _)
ScanPairs(keys, ms, bestPair, maxMatches) ==
  IF keys = <<>> THEN bestPair
  ELSE LET pairMatches == MatchesOfKey(ms, Head(keys))
           len == SumN(pairMatches)
       IN  IF len > maxMatches /\ len >= MinPairMatches
           THEN ScanPairs(Tail(keys), ms,
                          [ image1 |-> Head(keys)[1], image2 |-> Head(keys)[2],
                            matches |-> pairMatches ], len)
           ELSE ScanPairs(Tail(keys), ms, bestPair, maxMatches)

\* findBestInitialPair with the threshold folded into the running maximum
findBestInitialPair_StrictThreshold(ms) ==
  ScanPairs(PairKeys(ms, <<>>), ms, NoPair, MinPairMatches)

findBestInitialPair(ms) == ScanPairs(PairKeys(ms, <<>>), ms, NoPair, 0)

(***************************************************************************)
(* triangulatePointsOpenCV: the validation of the triangulated columns     *)
(***************************************************************************)
HasWeight(c) == Abs(c.W) > WEpsilon

Dehomogenize(c) == << c.X \div c.W, c.Y \div c.W, c.Z \div c.W >>

\* depth in camera 2 as the code computes it
DepthCam2(point3D, camera2) ==
  VAdd(ApplyMatrix3(point3D, camera2.rotation), camera2.translation)[3]

InFrontOfBoth(point3D, camera2) ==
  /\ point3D[3] > 0
  /\ DepthCam2(point3D, camera2) > 0

AcceptsColumn(c, camera1, camera2, intr) ==
  /\ HasWeight(c)
  /\ InFrontOfBoth(Dehomogenize(c), camera2)
  /\ ErrorBelow(calculateReprojectionError(Dehomogenize(c), c, camera1, camera2, intr),
                ReprojThreshold)

\* shade: the value Math.random() gave for the colour, in tenths of the
\* red channel
ToPoint3D(c, camera1, camera2, intr, shade) ==
  [ position |-> Dehomogenize(c),
    color |-> shade,
    reprojectionError |->
      calculateReprojectionError(Dehomogenize(c), c, camera1, camera2, intr),
    viewCount |-> 2,
    n |-> c.n,
    W |-> c.W ]   \* W: the weight the position was divided by (history)

RECURSIVE ValidateColumns(_, _, _, _, _)
ValidateColumns(cols, camera1, camera2, intr, shade) ==
  IF cols = <<>> THEN <<>>
  ELSE IF AcceptsColumn(Head(cols), camera1, camera2, intr)
       THEN <<ToPoint3D(Head(cols), camera1, camera2, intr, shade)>>
            \o ValidateColumns(Tail(cols), camera1, camera2, intr, shade)
       ELSE ValidateColumns(Tail(cols), camera1, camera2, intr, shade)

\* triangulatePointsOpenCV keeping a point only on a high random draw
triangulatePointsOpenCV_Subsampled(cols, camera1, camera2, intr, shade) ==
  IF 2 * SumN(cols) < MinInlierCoords \/ shade < 8
  THEN <<>>
  ELSE ValidateColumns(cols, camera1, camera2, intr, shade)

\* cols: the columns of points4D, one per inlier of the mask
triangulatePointsOpenCV(cols, camera1, camera2, intr, shade) ==
  IF 2 * SumN(cols) < MinInlierCoords
  THEN <<>>
  ELSE ValidateColumns(cols, camera1, camera2, intr, shade)

(***************************************************************************)
(* The heuristic path: matchFeatures, generateShapeBasedPointCloud,        *)
(* generateMesh                                                            *)
(***************************************************************************)
\* descriptors have one component here, so sqrt((a - b)^2) = |a - b|
computeDescriptorDistance(desc1, desc2) == Abs(desc1 - desc2)

\* the inner loop over features2; bestMatch = 0 stands for null
RECURSIVE ScanNearest(_, _, _, _)
ScanNearest(feature1, features2, k, acc) ==
  IF k > Len(features2) THEN acc
  ELSE LET distance == computeDescriptorDistance(feature1.descriptor,
                                                 features2[k].descriptor)
       IN  IF distance < acc.bestDistance
           THEN ScanNearest(feature1, features2, k + 1,
                  [ bestMatch |-> k, bestDistance |-> distance,
                    secondBestDistance |-> acc.bestDistance ])
           ELSE IF distance < acc.secondBestDistance
           THEN ScanNearest(feature1, features2, k + 1,
                  [ acc EXCEPT !.secondBestDistance = distance ])
           ELSE ScanNearest(feature1, features2, k + 1, acc)

HPassesRatioTest(acc) ==
  /\ acc.bestMatch # 0
  /\ acc.bestDistance * HRatioDen < HRatioNum * acc.secondBestDistance

\* the matches of feature k1.. of image i against image j; confidence is
\* 1 - distance / second
RECURSIVE MatchFeaturesOfPair(_, _, _, _, _)
MatchFeaturesOfPair(features1, features2, i, j, k1) ==
  IF k1 > Len(features1) THEN <<>>
  ELSE LET acc == ScanNearest(features1[k1], features2, 1,
                    [ bestMatch |-> 0, bestDistance |-> Infinity,
                      secondBestDistance |-> Infinity ])
       IN  ( IF HPassesRatioTest(acc)
             THEN << [ point1 |-> features1[k1], point2 |-> features2[acc.bestMatch],
                       image1Index |-> i, image2Index |-> j, n |-> 1,
                       distance |-> acc.bestDistance,
                       second |-> acc.secondBestDistance ] >>
             ELSE <<>> )
           \o MatchFeaturesOfPair(features1, features2, i, j, k1 + 1)

RECURSIVE MatchAllPairs(_, _, _)
MatchAllPairs(feats, i, j) ==
  IF i >= Len(feats) THEN <<>>
  ELSE IF j >= Len(feats) THEN MatchAllPairs(feats, i + 1, i + 2)
  ELSE MatchFeaturesOfPair(feats[i + 1].features, feats[j + 1].features, i, j, 1)
       \o MatchAllPairs(feats, i, j + 1)

\* b.confidence - a.confidence < 0: a sorts before b
MoreConfident(a, b) ==
  LET an == IF a.second = Infinity THEN 0 ELSE a.distance
      bn == IF b.second = Infinity THEN 0 ELSE b.distance
  IN  an * b.second < bn * a.second

\* the place Array.prototype.sort (stable) gives s[k] under the comparator
\* (a, b) => b.confidence - a.confidence
RankByConfidence(s, k) ==
  1 + Cardinality({ j \in 1..Len(s) :
                      \/ MoreConfident(s[j], s[k])
                      \/ (~MoreConfident(s[k], s[j]) /\ j < k) })

SortByConfidence(s) ==
  [ r \in 1..Len(s) |-> s[CHOOSE k \in 1..Len(s) : RankByConfidence(s, k) = r] ]

\* matches.sort(...).slice(0, 1000); ms and sorted are bound through sets so
\* that each is computed once
matchFeatures(feats) ==
  CHOOSE result \in
    { Slice(sorted, HMaxMatches) :
        sorted \in { SortByConfidence(ms) : ms \in { MatchAllPairs(feats, 0, 1) } } } :
    TRUE

\* estimateCameraPoses: one pose per image, and always the first
HPoseOf(feats, ms, i) ==
  LET imageMatches ==
        SelectSeq(ms, LAMBDA m : \/ (m.image1Index = 0 /\ m.image2Index = i)
                                 \/ (m.image1Index = i /\ m.image2Index = 0))
  IN  IF Len(imageMatches) >= 8 THEN [kind |-> "circle", index |-> i]
      ELSE [kind |-> "default", index |-> i]

estimateCameraPoses(feats, ms) ==
  << [kind |-> "origin", index |-> 0] >>
  \o [ k \in 1..(IF Len(feats) > 0 THEN Len(feats) - 1 ELSE 0) |-> HPoseOf(feats, ms, k) ]

\* generateShapeBasedPointCloud: the number of points for an average density
\* given in thousandths; createDefaultShape when there is no shape
generateShapeBasedPointCloud(nShapes, density) ==
  IF nShapes = 0 THEN HDefaultPoints
  ELSE Max(HMinPoints, Min(HMaxPoints, (density * HDensityScale) \div 1000))

ISqrt(m) == CHOOSE k \in 0..m : k * k <= m /\ (k + 1) * (k + 1) > m

\* the length of the index array generateDelaunayTriangulation builds
LayerFaces(n, layerSize, layer) ==
  LET startIdx == layer * layerSize * layerSize
      endIdx == Min((layer + 1) * layerSize * layerSize, n)
  IN  6 * Max(0, endIdx - layerSize - 1 - startIdx)

generateDelaunayTriangulation(n) ==
  LET layerSize == ISqrt(n \div 4)
      numRadialConnections == Min(100, (n + 9) \div 10)
  IN  LayerFaces(n, layerSize, 0) + LayerFaces(n, layerSize, 1)
      + LayerFaces(n, layerSize, 2) + LayerFaces(n, layerSize, 3)
      + 3 * Max(0, numRadialConnections - 1)

generateMesh(n, sourceImageCount) ==
  [ geometry |-> "BufferGeometry", vertices |-> n * 3,
    faces |-> generateDelaunayTriangulation(n),
    sourceImageCount |-> sourceImageCount ]

(***************************************************************************)
(* Actions                                                                 *)
(***************************************************************************)
inputVars == << impl, images >>

\* the native objects extractORBFeatures stores in every imageFeatures entry:
\* descriptors.clone(), keypoints.clone(), gray.clone()
StoredHandles == {"descriptors", "keypoints", "mat"}

\* pts1, pts2, K and essentialMatrix of performTwoViewReconstruction
EssentialHandles == {"pts1", "pts2", "K", "essentialMatrix"}

\* R, t and mask of performTwoViewReconstruction
PoseHandles == {"R", "t", "mask"}

\* the native objects triangulatePointsOpenCV deletes before it returns
TriangulationHandles ==
  {"I", "zeros", "Rt1", "P1", "Rt2", "P2", "inlierMat1", "inlierMat2", "points4D"}

\* cleanupOpenCVResources(imageFeatures): delete descriptors, keypoints and
\* mat of every entry
cleanupOpenCVResources(live, feats) ==
  IF Len(feats) = 0 THEN live ELSE live \ StoredHandles

extractVars == << nextImage, imageFeatures >>

matchVars == << pairI, pairJ, matches, knnResults >>

geomVars ==
  << intrinsics, initPair, essential, RData, tData, inlierCount, cameras, points4D >>

resultVars == << model, outcome >>

uploadVars == << reqFiles, response, processCalls >>

storeVars ==
  << storeImages, processedImages, generatedModel, isProcessing, isGenerating,
     currentStep, activeTab, procRuns, genRuns, nextFile, sinceReset >>

\* a failure result that leaves the optional errorMessage out
Failure_NoReason(msg) ==
  [ success |-> FALSE, errorMessage |-> "", points3D |-> <<>>, cameras |-> <<>> ]

Failure(msg) ==
  [ success |-> FALSE, errorMessage |-> msg, points3D |-> <<>>, cameras |-> <<>> ]

\* generateModel is entered; the OpenCV path first awaits waitForOpenCV()
GenerateModelStart ==
  /\ pc = "start"
  /\ pc' = IF impl = "heuristic" THEN "hExtract"
           ELSE IF cvReady THEN "extractBegin" ELSE "waitCV"
  /\ UNCHANGED << inputVars, uploadVars, storeVars, handles, cvReady, extractVars, matchVars, geomVars,
                  reconstruction, resultVars, hPointCount, logged, trace >>

\* the script that loads OpenCV sets window.cvReady (if it ever loads)
OpenCVLoaded ==
  /\ impl = "opencv"
  /\ pc \in {"start", "waitCV"}
  /\ ~cvReady
  /\ cvReady' = TRUE
  /\ UNCHANGED << inputVars, uploadVars, storeVars, handles, pc, extractVars, matchVars, geomVars,
                  reconstruction, resultVars, hPointCount, logged, trace >>

\* waitForOpenCV's checkCV: resolve, or setTimeout(checkCV, 100)
CheckCV ==
  /\ pc = "waitCV"
  /\ pc' = IF cvReady THEN "extractBegin" ELSE "waitCV"
  /\ UNCHANGED << inputVars, uploadVars, storeVars, handles, cvReady, extractVars, matchVars, geomVars,
                  reconstruction, resultVars, hPointCount, logged, trace >>

\* extractORBFeatures: new cv.ORB_create(...)
ExtractBegin ==
  /\ pc = "extractBegin"
  /\ trace' = Append(trace, "extract")
  /\ \E throws \in BOOLEAN :
       IF throws
       THEN /\ ReturnFallback("exception: ORB_create")
            /\ handles' = handles
       ELSE /\ pc' = "extract"
            /\ handles' = handles \cup {"orb"}
            /\ UNCHANGED << resultVars, logged >>
  /\ UNCHANGED << inputVars, uploadVars, storeVars, cvReady, extractVars, matchVars, geomVars,
                  reconstruction, hPointCount >>

\* one iteration of extractORBFeatures' loop: an image that fails to load or
\* to be read is logged and skipped. For a loaded image mat, gray, keypoints
\* and descriptors are deleted, their three clones are stored, and the mask
\* argument new cv.Mat() of detectAndCompute is not deleted
ExtractImage ==
  /\ pc = "extract"
  /\ nextImage < Len(images)
  /\ IF images[nextImage + 1] = "ok"
     THEN /\ imageFeatures' = Append(imageFeatures,
                                     [imageIndex |-> nextImage, keypoints |-> MaxKeypoints])
          /\ handles' = handles \cup StoredHandles \cup {"detectMask"}
     ELSE /\ imageFeatures' = imageFeatures
          /\ handles' = handles
  /\ nextImage' = nextImage + 1
  /\ UNCHANGED << inputVars, uploadVars, storeVars, cvReady, pc, matchVars, geomVars, reconstruction,
                  resultVars, hPointCount, logged, trace >>

\* the loop is over: orb.delete(), return; robustFeatureMatching creates the matcher
MatcherCreate ==
  /\ pc = "extract"
  /\ nextImage >= Len(images)
  /\ trace' = Append(trace, "match")
  /\ \E throws \in BOOLEAN :
       IF throws
       THEN /\ ReturnFallback("exception: BFMatcher")
            /\ handles' = handles \ {"orb"}
       ELSE /\ pc' = "match"
            /\ handles' = (handles \ {"orb"}) \cup {"matcher"}
            /\ UNCHANGED << resultVars, logged >>
  /\ pairI' = 0
  /\ pairJ' = 1
  /\ UNCHANGED << inputVars, uploadVars, storeVars, cvReady, extractVars, matches, knnResults,
                  geomVars, reconstruction, hPointCount >>

\* one iteration of robustFeatureMatching's loops: pair (pairI, pairJ)
MatchPairOn(answers) ==
  /\ pairJ < Len(imageFeatures)
  /\ \/ /\ \E a \in answers :
             /\ knnResults' = [i |-> pairI, j |-> pairJ, knn |-> a.knn, back |-> a.back]
             /\ matches' = matches \o robustMatchPair(a.knn, a.back, imageFeatures,
                                                      pairI, pairJ)
        /\ handles' = handles   \* this pair's knnMatches and backMatches are deleted
     \/ /\ matches' = matches   \* matcher.knnMatch throws, caught inside the loop:
        /\ knnResults' = NoKnn
        /\ handles' = handles \cup {"knnMatches"}   \* knnMatches.delete() is skipped
  /\ IF pairJ + 1 < Len(imageFeatures)
     THEN pairI' = pairI /\ pairJ' = pairJ + 1
     ELSE pairI' = pairI + 1 /\ pairJ' = pairI + 2
  /\ UNCHANGED << inputVars, uploadVars, storeVars, cvReady, pc, extractVars, geomVars, reconstruction,
                  resultVars, hPointCount, logged, trace >>

\* one group of like knnMatch entries and the back matches it may have
KnnAnswers ==
  UNION { { [knn |-> <<g>>, back |-> b] : b \in BackGroups(g) } : g \in KnnGroups }

MatchPair ==
  /\ pc = "match"
  /\ MatchPairOn(KnnAnswers)

\* Longer answers for one pair: up to MaxGroups groups of like entries, the
\* k-th query descriptor in the k-th entry, its nearest neighbour shift rows
\* further on in the other image, and back matches for the groups in backed.
RichGroups ==
  { g \in [ n : {15, 120}, size : {2}, d1 : {10, 30}, d2 : {20, 50} ] :
      g.d1 = 10 => g.d2 = 20 }

MaxGroups == 3

TrainShifts == {0, 300}

RECURSIVE Indexed(_, _, _)
Indexed(gs, from, shift) ==
  IF gs = <<>> THEN <<>>
  ELSE << [ n |-> Head(gs).n, size |-> Head(gs).size, d1 |-> Head(gs).d1,
            d2 |-> Head(gs).d2, queryIdx |-> from, trainIdx |-> from + shift ] >>
       \o Indexed(Tail(gs), from + Head(gs).n, shift)

RECURSIVE BackOf(_, _, _)
BackOf(knn, backed, k) ==
  IF k > Len(knn) THEN <<>>
  ELSE ( IF k \in backed
         THEN << [ n |-> knn[k].n, size |-> 2, queryIdx |-> knn[k].trainIdx,
                   trainIdx |-> knn[k].queryIdx ] >>
         ELSE <<>> )
       \o BackOf(knn, backed, k + 1)

RichAnswer(gs, shift, backed) ==
  [ knn |-> Indexed(gs, 0, shift), back |-> BackOf(Indexed(gs, 0, shift), backed, 1) ]

MatchPairRich ==
  /\ pc = "match"
  /\ pairJ < Len(imageFeatures)
  /\ \E len \in 1..MaxGroups :
       \E gs \in [1..len -> RichGroups] :
         \E shift \in TrainShifts :
           \E backed \in SUBSET (1..len) :
             MatchPairOn({ RichAnswer(gs, shift, backed) })

\* the loops are over: matcher.delete(), return
MatchDone ==
  /\ pc = "match"
  /\ pairJ >= Len(imageFeatures)
  /\ pc' = "intrinsics"
  /\ handles' = handles \ {"matcher"}
  /\ knnResults' = NoKnn
  /\ UNCHANGED << inputVars, uploadVars, storeVars, cvReady, extractVars, pairI, pairJ, matches, geomVars,
                  reconstruction, resultVars, hPointCount, logged, trace >>

\* estimateCameraIntrinsics(processedImages[0]): loads the first image again
EstimateIntrinsics ==
  /\ pc = "intrinsics"
  /\ trace' = Append(trace, "intrinsics")
  /\ IF Len(images) = 0
     THEN /\ ReturnFallback("exception: TypeError")
          /\ intrinsics' = intrinsics
     ELSE IF images[1] # "ok"
     THEN /\ ReturnFallback("exception: image load")
          /\ intrinsics' = intrinsics
     ELSE /\ \E dims \in ImageDims :
               intrinsics' = estimateCameraIntrinsics(dims[1], dims[2])
          /\ pc' = "sfm"
          /\ UNCHANGED << resultVars, logged >>
  /\ UNCHANGED << inputVars, uploadVars, storeVars, handles, cvReady, extractVars, matchVars, initPair, essential,
                  RData, tData, inlierCount, cameras, points4D, reconstruction,
                  hPointCount >>

\* performSfMReconstruction up to the call of performTwoViewReconstruction
SelectPair ==
  /\ pc = "sfm"
  /\ IF SumN(matches) < MinTotalMatches
     THEN /\ reconstruction' = Failure(InsufficientMsg)
          /\ pc' = "checkResult"
          /\ UNCHANGED << initPair, trace >>
     ELSE /\ trace' = Append(trace, "selectPair")
          /\ IF findBestInitialPair(matches) = NoPair
             THEN /\ reconstruction' = Failure(NoPairMsg)
                  /\ pc' = "checkResult"
                  /\ initPair' = initPair
             ELSE /\ initPair' = findBestInitialPair(matches)
                  /\ pc' = "essential"
                  /\ reconstruction' = reconstruction
  /\ UNCHANGED << inputVars, uploadVars, storeVars, handles, cvReady, extractVars, matchVars, intrinsics, essential,
                  RData, tData, inlierCount, cameras, points4D, resultVars, hPointCount,
                  logged >>

\* performTwoViewReconstruction without its essentialMatrix.rows === 0 check
AbortsOnEssential_NoRowsCheck(result) == result = "throws"

\* performTwoViewReconstruction: cv.findEssentialMat and the rows === 0 check
AbortsOnEssential(result) == result # "ok"

FindEssential ==
  /\ pc = "essential"
  /\ trace' = Append(trace, "essential")
  /\ \E result \in {"ok", "empty", "throws"} :
       /\ essential' = result
       /\ handles' = IF result = "ok" THEN handles \cup EssentialHandles
                     ELSE IF result = "empty" THEN handles
                     ELSE handles \cup (EssentialHandles \ {"essentialMatrix"})
       /\ IF AbortsOnEssential(result)
          THEN /\ reconstruction' = Failure(TwoViewFailedMsg)
               /\ pc' = "checkResult"
               /\ logged' = IF result = "throws"
                            THEN Append(logged, "Two-view reconstruction error")
                            ELSE logged
          ELSE /\ pc' = "recoverPose"
               /\ UNCHANGED << reconstruction, logged >>
  /\ UNCHANGED << inputVars, uploadVars, storeVars, cvReady, extractVars, matchVars, intrinsics, initPair,
                  RData, tData, inlierCount, cameras, points4D, resultVars, hPointCount >>

\* the inlier check, with the pose accepted whatever the count
TooFewInliers_Never(count) == FALSE

\* performTwoViewReconstruction: if (inlierCount < 50)
TooFewInliers(count) == count < MinInliers

\* cv.recoverPose, the inlier check and the assembly of the two cameras
RecoverPose ==
  /\ pc = "recoverPose"
  /\ trace' = Append(trace, "recoverPose")
  /\ \E r \in Rotations, t \in Translations, count \in {MinInliers - 1, MinInliers} :
       /\ RData' = r
       /\ tData' = t
       /\ inlierCount' = count
       /\ IF TooFewInliers(count)
          THEN /\ reconstruction' = Failure(TwoViewFailedMsg)
               /\ pc' = "checkResult"
               /\ cameras' = cameras
               /\ handles' = handles \ (EssentialHandles \cup PoseHandles)
          ELSE /\ cameras' = << Camera1(intrinsics), Camera2(r, t, intrinsics) >>
               /\ pc' = "triangulate"
               /\ reconstruction' = reconstruction
               /\ handles' = handles \cup PoseHandles
  /\ UNCHANGED << inputVars, uploadVars, storeVars, cvReady, extractVars, matchVars, intrinsics, initPair,
                  essential, points4D, resultVars, hPointCount, logged >>

Column(c, n) ==
  [ X |-> c.X, Y |-> c.Y, Z |-> c.Z, W |-> c.W,
    point1 |-> c.point1, point2 |-> c.point2, n |-> n ]

\* what performTwoViewReconstruction and performSfMReconstruction return
\* once triangulatePointsOpenCV has returned points3D
TwoViewSuccess(points3D, cams) ==
  [ success |-> TRUE, errorMessage |-> "", points3D |-> points3D, cameras |-> cams ]

\* triangulatePointsOpenCV: cv.triangulatePoints gives one column per inlier;
\* an exception is caught inside and the points so far are returned. The two
\* unnamed new cv.Mat() arguments of cv.gemm are never deleted. Back in
\* performTwoViewReconstruction pts1, pts2, K, essentialMatrix, R, t and mask
\* are deleted
TriangulateOn(firstColumns, nextColumns) ==
  /\ trace' = Append(trace, "triangulate")
  /\ \/ \E c1 \in firstColumns, shade \in Shades :
        \E c2 \in nextColumns \cup {c1} :
          LET cols == IF c2 = c1
                      THEN << Column(c1, inlierCount) >>
                      ELSE << Column(c1, 1), Column(c2, inlierCount - 1) >>
          IN  /\ points4D' = cols
              /\ reconstruction' =
                   TwoViewSuccess(
                     triangulatePointsOpenCV(cols, cameras[1], cameras[2], intrinsics,
                                             shade),
                     cameras)
              /\ logged' = logged
              /\ handles' = (handles \cup {"gemmSrc3"})
                               \ (EssentialHandles \cup PoseHandles)
     \/ /\ points4D' = points4D
        /\ reconstruction' = TwoViewSuccess(<<>>, cameras)
        /\ logged' = Append(logged, "OpenCV triangulation error")
        /\ handles' = (handles \cup {"gemmSrc3"} \cup TriangulationHandles)
                         \ (EssentialHandles \cup PoseHandles)
  /\ pc' = "checkResult"
  /\ UNCHANGED << inputVars, uploadVars, storeVars, cvReady, extractVars, matchVars, intrinsics, initPair,
                  essential, RData, tData, inlierCount, cameras, resultVars,
                  hPointCount >>

Triangulate ==
  /\ pc = "triangulate"
  /\ TriangulateOn(Columns, RegularColumns)

\* generateModel after performSfMReconstruction: fallback on failure, else
\* generateMeshFromPointCloud, cleanupOpenCVResources, return model
GenerateModelFinish ==
  /\ pc = "checkResult"
  /\ IF ~reconstruction.success
     THEN /\ ReturnFallback(reconstruction.errorMessage)
          /\ trace' = trace
          /\ handles' = handles
     ELSE /\ model' = generateMeshFromPointCloud(reconstruction.points3D)
          /\ handles' = cleanupOpenCVResources(handles, imageFeatures)
          /\ outcome' = "Succeeded"
          /\ pc' = "done"
          /\ trace' = Append(trace, "assemble")
          /\ logged' = logged
  /\ UNCHANGED << inputVars, uploadVars, storeVars, cvReady, extractVars, matchVars, geomVars,
                  reconstruction, hPointCount >>

(***************************************************************************)
(* Actions of the heuristic path (lib/photogrammetry.ts)                   *)
(***************************************************************************)
\* one iteration of extractFeatures' loop: await onload (no onerror is set),
\* getImageData, extractSIFTFeatures
HExtractImage ==
  /\ pc = "hExtract"
  /\ nextImage < Len(images)
  /\ \/ /\ images[nextImage + 1] = "ok"
        /\ \E fl \in FeatureLists :
             imageFeatures' =
               Append(imageFeatures, [imageIndex |-> nextImage, features |-> fl])
        /\ nextImage' = nextImage + 1
        /\ UNCHANGED << pc, outcome >>
     \/ /\ images[nextImage + 1] = "undecodable"
        /\ pc' = "hAwaitOnload"
        /\ UNCHANGED << extractVars, outcome >>
     \/ /\ images[nextImage + 1] = "unreadable"
        /\ pc' = "rejected"
        /\ outcome' = "Rejected"
        /\ UNCHANGED extractVars
  /\ UNCHANGED << inputVars, uploadVars, storeVars, handles, cvReady, matchVars, geomVars, reconstruction, model,
                  hPointCount, logged, trace >>

\* matchFeatures
HMatch ==
  /\ pc = "hExtract"
  /\ nextImage >= Len(images)
  /\ matches' = matchFeatures(imageFeatures)
  /\ pc' = "hPoses"
  /\ trace' = trace \o <<"extract", "match">>
  /\ UNCHANGED << inputVars, uploadVars, storeVars, handles, cvReady, extractVars, pairI, pairJ,
                  knnResults, geomVars, reconstruction, resultVars, hPointCount, logged >>

\* estimateCameraPoses
HEstimatePoses ==
  /\ pc = "hPoses"
  /\ cameras' = estimateCameraPoses(imageFeatures, matches)
  /\ pc' = "hTriangulate"
  /\ trace' = Append(trace, "poses")
  /\ UNCHANGED << inputVars, uploadVars, storeVars, handles, cvReady, extractVars, matchVars, intrinsics, initPair,
                  essential, RData, tData, inlierCount, points4D, reconstruction, resultVars,
                  hPointCount, logged >>

\* triangulatePoints: analyzeImageShapes, generateShapeBasedPointCloud
HTriangulate ==
  /\ pc = "hTriangulate"
  /\ \E density \in Densities :
       hPointCount' = generateShapeBasedPointCloud(Len(imageFeatures), density)
  /\ pc' = "hMesh"
  /\ trace' = Append(trace, "triangulate")
  /\ UNCHANGED << inputVars, uploadVars, storeVars, handles, cvReady, extractVars, matchVars, geomVars, reconstruction,
                  resultVars, logged >>

\* generateMesh, return model
HGenerateMesh ==
  /\ pc = "hMesh"
  /\ model' = generateMesh(hPointCount, Len(images))
  /\ outcome' = "Succeeded"
  /\ pc' = "done"
  /\ trace' = Append(trace, "assemble")
  /\ UNCHANGED << inputVars, uploadVars, storeVars, handles, cvReady, extractVars, matchVars, geomVars, reconstruction,
                  hPointCount, logged >>

Next ==
  \/ GenerateModelStart
  \/ OpenCVLoaded
  \/ CheckCV
  \/ ExtractBegin
  \/ ExtractImage
  \/ MatcherCreate
  \/ MatchPair
  \/ MatchDone
  \/ EstimateIntrinsics
  \/ SelectPair
  \/ FindEssential
  \/ RecoverPose
  \/ Triangulate
  \/ GenerateModelFinish
  \/ HExtractImage
  \/ HMatch
  \/ HEstimatePoses
  \/ HTriangulate
  \/ HGenerateMesh

Spec == Init /\ [][Next]_vars

\* the steps the event loop is bound to run: every continuation and timer of
\* the invocation. Whether the OpenCV script ever loads is up to the network.
PipelineStep ==
  \/ GenerateModelStart
  \/ CheckCV
  \/ ExtractBegin
  \/ ExtractImage
  \/ MatcherCreate
  \/ MatchPair
  \/ MatchDone
  \/ EstimateIntrinsics
  \/ SelectPair
  \/ FindEssential
  \/ RecoverPose
  \/ Triangulate
  \/ GenerateModelFinish
  \/ HExtractImage
  \/ HMatch
  \/ HEstimatePoses
  \/ HTriangulate
  \/ HGenerateMesh

LiveSpec == Spec /\ WF_vars(PipelineStep)

(***************************************************************************)
(* performSfMReconstruction on any matcher output                          *)
(***************************************************************************)
\* the number of matches one image pair may contribute
PairCounts == {0, 49, 50, 51}

\* the image pairs in the order robustFeatureMatching visits them
RECURSIVE PairsFrom(_, _, _)
PairsFrom(i, j, n) ==
  IF i + 1 >= n THEN <<>>
  ELSE IF j >= n THEN PairsFrom(i + 1, i + 2, n)
  ELSE << <<i, j>> >> \o PairsFrom(i, j + 1, n)

\* the matcher's output when pair number k contributes counts[k] matches
RECURSIVE MatchesOfCounts(_, _, _)
MatchesOfCounts(pairs, counts, k) ==
  IF k > Len(pairs) THEN <<>>
  ELSE ( IF counts[k] = 0 THEN <<>>
         ELSE << [ image1Index |-> pairs[k][1], image2Index |-> pairs[k][2],
                   n |-> counts[k], distance |-> 10, size |-> 2, second |-> 20,
                   point1 |-> [imageIndex |-> pairs[k][1], index |-> 0],
                   point2 |-> [imageIndex |-> pairs[k][2], index |-> 0],
                   queryIdx |-> 0, trainIdx |-> 0 ] >> )
       \o MatchesOfCounts(pairs, counts, k + 1)

\* generateModel has extracted, matched and estimated the intrinsics of
\* MaxImages decodable images and calls performSfMReconstruction; every pair
\* contributed a number of matches in countSet, the first image has its
\* dimensions in dimSet
BeforeSfM(countSet, dimSet) ==
  /\ impl = "opencv"
  /\ cvReady = TRUE
  /\ images = [k \in 1..MaxImages |-> "ok"]
  /\ pc = "sfm"
  /\ nextImage = MaxImages
  /\ imageFeatures = [k \in 1..MaxImages |->
                        [imageIndex |-> k - 1, keypoints |-> MaxKeypoints]]
  /\ pairI = MaxImages - 1
  /\ pairJ = MaxImages
  /\ \E counts \in [1..Len(PairsFrom(0, 1, MaxImages)) -> countSet] :
       matches = MatchesOfCounts(PairsFrom(0, 1, MaxImages), counts, 1)
  /\ \E dims \in dimSet : intrinsics = estimateCameraIntrinsics(dims[1], dims[2])
  /\ initPair = NoPair
  /\ essential = "none"
  /\ RData = <<>>
  /\ tData = <<>>
  /\ inlierCount = 0
  /\ cameras = <<>>
  /\ points4D = <<>>
  /\ reconstruction = NoResult
  /\ model = NoModel
  /\ outcome = "running"
  /\ hPointCount = 0
  /\ logged = <<>>
  /\ trace = <<"extract", "match", "intrinsics">>
  /\ handles = StoredHandles \cup {"detectMask"}
  /\ knnResults = NoKnn
  /\ reqFiles = NoRequest
  /\ response = NoResponse
  /\ processCalls = 0
  /\ StoreInit

\* the state in which robustFeatureMatching enters its loops for two images
MatchInit ==
  /\ impl = "opencv"
  /\ cvReady = TRUE
  /\ images = <<"ok", "ok">>
  /\ pc = "match"
  /\ nextImage = 2
  /\ imageFeatures = [k \in 1..2 |-> [imageIndex |-> k - 1, keypoints |-> MaxKeypoints]]
  /\ pairI = 0
  /\ pairJ = 1
  /\ matches = <<>>
  /\ intrinsics = <<>>
  /\ initPair = NoPair
  /\ essential = "none"
  /\ RData = <<>>
  /\ tData = <<>>
  /\ inlierCount = 0
  /\ cameras = <<>>
  /\ points4D = <<>>
  /\ reconstruction = NoResult
  /\ model = NoModel
  /\ outcome = "running"
  /\ hPointCount = 0
  /\ logged = <<>>
  /\ trace = <<"extract", "match">>
  /\ handles = StoredHandles \cup {"detectMask", "matcher"}
  /\ knnResults = NoKnn
  /\ reqFiles = NoRequest
  /\ response = NoResponse
  /\ processCalls = 0
  /\ StoreInit

MatchNext == MatchPairRich \/ MatchDone

MatchSpec == MatchInit /\ [][MatchNext]_vars

PairInit == BeforeSfM(PairCounts, { <<10, 30>> })

PairNext == SelectPair

PairSpec == PairInit /\ [][PairNext]_vars

(***************************************************************************)
(* performSfMReconstruction, its result checked by generateModel           *)
(***************************************************************************)
\* the number of matches one image pair may contribute
GeomCounts == {0, 60}

GeomInit == BeforeSfM(GeomCounts, ImageDims)

GeomNext ==
  \/ SelectPair
  \/ FindEssential
  \/ RecoverPose
  \/ Triangulate
  \/ GenerateModelFinish

GeomSpec == GeomInit /\ [][GeomNext]_vars

(***************************************************************************)
(* The two-view stage on matches that are the exact images of a 3D point   *)
(***************************************************************************)
\* cv.gemm(K, Rt, ...) applied to a point: the homogeneous image point
\* K * (R * X + t), with K, R and t as the cv.Mat objects hold them
ProjectionMatrixTimes(K, R, t, X) ==
  RowMajorTimes(K, VAdd(RowMajorTimes(R, X), t))

\* the homogeneous image point h is the pixel pt
ProjectsExactly(h, pt) ==
  /\ h[3] # 0
  /\ h[1] = pt[1] * h[3]
  /\ h[2] = pt[2] * h[3]

\* 3D points on the first camera's optical axis
ExactPositions == { <<0, 0, 1>>, <<0, 0, 4>>, <<0, 0, 7>> }

\* feature coordinates inside the smaller image
Pixels == { <<0, 0>>, <<1, 0>>, <<2, 0>> }

\* the columns of points4D that stand for a point whose two matched features
\* are its images under P1 = K[I|0] and P2 = K[R|t]
ExactColumns ==
  { [ X |-> 2 * m[1][1], Y |-> 2 * m[1][2], Z |-> 2 * m[1][3], W |-> 2,
      point1 |-> m[2], point2 |-> m[3] ] :
    m \in { r \in ExactPositions \X Pixels \X Pixels :
              /\ ProjectsExactly(
                   ProjectionMatrixTimes(CameraMatrixK(intrinsics), Matrix3Identity,
                                         <<0, 0, 0>>, r[1]), r[2])
              /\ ProjectsExactly(
                   ProjectionMatrixTimes(CameraMatrixK(intrinsics), RData, tData,
                                         r[1]), r[3]) } }

TriangulateExact ==
  /\ pc = "triangulate"
  /\ TriangulateOn(ExactColumns, {})

ExactNext ==
  \/ SelectPair
  \/ FindEssential
  \/ RecoverPose
  \/ TriangulateExact
  \/ GenerateModelFinish

ExactSpec == GeomInit /\ [][ExactNext]_vars

(***************************************************************************)
(* The server route POST /api/upload-images (server/routes.ts)             *)
(***************************************************************************)
\* the mimetypes of files that pass multer's fileFilter
AllowedTypes == {"image/jpeg", "image/png", "image/webp"}

\* a request whose files multer accepted, or one without a files array
UploadRequests ==
  { [present |-> TRUE, files |-> f] : f \in SeqsUpTo(AllowedTypes, MaxFiles) }
  \cup { [present |-> FALSE, files |-> <<>>] }

\* the client is idle and a request has reached the route handler
UploadInit ==
  /\ impl = "heuristic"
  /\ cvReady = FALSE
  /\ images = <<>>
  /\ pc = "idle"
  /\ nextImage = 0
  /\ imageFeatures = <<>>
  /\ pairI = 0
  /\ pairJ = 1
  /\ matches = <<>>
  /\ intrinsics = <<>>
  /\ initPair = NoPair
  /\ essential = "none"
  /\ RData = <<>>
  /\ tData = <<>>
  /\ inlierCount = 0
  /\ cameras = <<>>
  /\ points4D = <<>>
  /\ reconstruction = NoResult
  /\ model = NoModel
  /\ outcome = "running"
  /\ hPointCount = 0
  /\ logged = <<>>
  /\ trace = <<>>
  /\ handles = {}
  /\ knnResults = NoKnn
  /\ reqFiles \in UploadRequests
  /\ response = NoResponse
  /\ processCalls = 0
  /\ StoreInit

clientVars ==
  << impl, cvReady, images, pc, nextImage, imageFeatures, pairI, pairJ, matches,
     intrinsics, initPair, essential, RData, tData, inlierCount, cameras, points4D,
     reconstruction, model, outcome, hPointCount, logged, trace, handles,
     knnResults >>

\* the first check without its length === 0 part
RejectsAsEmpty_MissingOnly(req) == ~req.present

\* the first check of the handler: !req.files || !Array.isArray || length === 0
RejectsAsEmpty(req) == ~req.present \/ Len(req.files) = 0

\* the number of files the second check of the handler asks for
MinUploadFiles == 3

\* the handler of app.post("/api/upload-images", ...)
UploadImages ==
  /\ response = NoResponse
  /\ IF RejectsAsEmpty(reqFiles)
     THEN /\ response' = [status |-> 400, error |-> "No images uploaded"]
          /\ processCalls' = processCalls
     ELSE IF Len(reqFiles.files) < MinUploadFiles
     THEN /\ response' = [ status |-> 400,
                           error |-> "Minimum 3 images required for 3D reconstruction" ]
          /\ processCalls' = processCalls
     ELSE /\ processCalls' = processCalls + 1
          /\ \E throws \in BOOLEAN :
               response' = IF throws
                           THEN [ status |-> 500,
                                  error |-> "Failed to process uploaded images" ]
                           ELSE [status |-> 200, error |-> ""]
  /\ UNCHANGED << clientVars, storeVars, reqFiles >>

UploadNext == UploadImages

UploadSpec == UploadInit /\ [][UploadNext]_vars

(***************************************************************************)
(* The useVision3D store and the components that drive it                  *)
(***************************************************************************)
\* how many Files the user adds, and how many times processImages and
\* generate3DModel are called, in one behaviour
MaxAdds == 2

MaxProcRuns == 2

MaxGenRuns == 2

\* the currentStep of the six stages generate3DModel announces before it
\* awaits generateModel
StageSteps ==
  << "Analyzing image features and keypoints",
     "Finding corresponding points between images",
     "Calculating camera poses and orientations",
     "Creating 3D point cloud from matched features",
     "Triangulating point cloud into solid mesh",
     "Optimizing mesh and applying textures" >>

StageCount == 6

\* the runs that have not returned yet
InFlight(runs) == { r \in 1..Len(runs) : runs[r].status = "running" }

\* a processImages run that has returned: its closure is gone
ReturnedProcessing == [status |-> "done", snapshot |-> <<>>, i |-> 0, processed |-> <<>>]

\* processImages up to its first await; the closure holds the images of the
\* render that created it
StartProcessing ==
  /\ Len(procRuns) < MaxProcRuns
  /\ procRuns' = Append(procRuns, [ status |-> "running", snapshot |-> storeImages,
                                    i |-> 0, processed |-> <<>> ])
  /\ isProcessing' = TRUE
  /\ currentStep' = "Processing image"

\* a generate3DModel run that has returned
ReturnedGeneration == [status |-> "done", snapshot |-> <<>>, stage |-> StageCount]

\* generate3DModel up to its first await
StartGeneration(closure) ==
  /\ Len(genRuns) < MaxGenRuns
  /\ genRuns' = Append(genRuns, [status |-> "running", snapshot |-> closure, stage |-> 1])
  /\ isGenerating' = TRUE
  /\ currentStep' = StageSteps[1]

\* ImageUploader adds a File (store: addImages)
addImages ==
  /\ activeTab = "upload"
  /\ nextFile <= MaxAdds
  /\ storeImages' = Append(storeImages, nextFile)
  /\ nextFile' = nextFile + 1
  /\ sinceReset' = FALSE
  /\ UNCHANGED << clientVars, uploadVars, processedImages, generatedModel, isProcessing,
                  isGenerating, currentStep, activeTab, procRuns, genRuns >>

\* ImageUploader removes the File at index (store: removeImage)
removeImage ==
  /\ activeTab = "upload"
  /\ \E index \in 1..Len(storeImages) :
       storeImages' = [ k \in 1..(Len(storeImages) - 1) |->
                          IF k < index THEN storeImages[k] ELSE storeImages[k + 1] ]
  /\ UNCHANGED << clientVars, uploadVars, processedImages, generatedModel, isProcessing,
                  isGenerating, currentStep, activeTab, procRuns, genRuns, nextFile,
                  sinceReset >>

\* the Reset Project button (store: reset); the runs in flight are not told
reset ==
  /\ storeImages' = <<>>
  /\ processedImages' = <<>>
  /\ generatedModel' = NoGeneratedModel
  /\ isProcessing' = FALSE
  /\ isGenerating' = FALSE
  /\ currentStep' = ""
  /\ sinceReset' = TRUE
  /\ UNCHANGED << clientVars, uploadVars, activeTab, procRuns, genRuns, nextFile >>

\* the tab triggers and Proceed buttons of Vision3D; the content of the tab
\* opened is mounted and its effect runs: ImageProcessor starts processImages,
\* ModelGenerator starts generate3DModel
SwitchTab ==
  \E tab \in {"upload", "process", "generate"} \ {activeTab} :
    /\ activeTab' = tab
    /\ tab = "process" => Len(storeImages) > 0
    /\ tab = "generate" => Len(processedImages) > 0
    /\ IF tab = "process" /\ Len(processedImages) = 0 /\ ~isProcessing
       THEN /\ StartProcessing
            /\ UNCHANGED << isGenerating, genRuns >>
       ELSE IF tab = "generate" /\ generatedModel = NoGeneratedModel /\ ~isGenerating
       THEN /\ StartGeneration(processedImages)
            /\ UNCHANGED << isProcessing, procRuns >>
       ELSE UNCHANGED << isProcessing, isGenerating, currentStep, procRuns, genRuns >>
    /\ UNCHANGED << clientVars, uploadVars, storeImages, processedImages, generatedModel,
                    nextFile, sinceReset >>

\* the Process Images button of ImageProcessor
ClickProcess ==
  /\ activeTab = "process"
  /\ ~isProcessing /\ Len(processedImages) = 0
  /\ Len(storeImages) > 0
  /\ StartProcessing
  /\ UNCHANGED << clientVars, uploadVars, storeImages, processedImages, generatedModel,
                  isGenerating, activeTab, genRuns, nextFile, sinceReset >>

\* one image of a processImages run is done: it was pushed, or both the
\* processing and the fallback failed and it was left out. After the last
\* image: setProcessedImages, setIsProcessing(false), setCurrentStep; a
\* mounted ModelGenerator sees processedImages.length change and runs its effect
ProcessImageDone(r) ==
  /\ r \in InFlight(procRuns)
  /\ \E pushed \in BOOLEAN :
       LET run == procRuns[r]
           processed == IF pushed THEN Append(run.processed, run.snapshot[run.i + 1])
                        ELSE run.processed
       IN  IF run.i + 1 < Len(run.snapshot)
           THEN /\ procRuns' = [procRuns EXCEPT ![r] = [run EXCEPT !.i = run.i + 1,
                                                                 !.processed = processed]]
                /\ currentStep' = "Processing image"
                /\ UNCHANGED << processedImages, isProcessing, isGenerating, genRuns >>
           ELSE /\ procRuns' = [procRuns EXCEPT ![r] = ReturnedProcessing]
                /\ processedImages' = processed
                /\ isProcessing' = FALSE
                /\ IF /\ activeTab = "generate"
                      /\ Len(processed) # Len(processedImages)
                      /\ Len(processed) > 0
                      /\ generatedModel = NoGeneratedModel /\ ~isGenerating
                   THEN StartGeneration(processed)
                   ELSE /\ currentStep' = "Image processing complete!"
                        /\ UNCHANGED << isGenerating, genRuns >>
  /\ UNCHANGED << clientVars, uploadVars, storeImages, generatedModel, activeTab, nextFile,
                  sinceReset >>

\* the Generate 3D Model button of ModelGenerator
ClickGenerate ==
  /\ activeTab = "generate"
  /\ ~isGenerating /\ generatedModel = NoGeneratedModel
  /\ Len(processedImages) > 0
  /\ StartGeneration(processedImages)
  /\ UNCHANGED << clientVars, uploadVars, storeImages, processedImages, generatedModel,
                  isProcessing, activeTab, procRuns, nextFile, sinceReset >>

\* a stage timer of a generate3DModel run fires: the next stage is announced
GenerationStage(r) ==
  /\ r \in InFlight(genRuns)
  /\ genRuns[r].stage < StageCount
  /\ genRuns' = [genRuns EXCEPT ![r].stage = @ + 1]
  /\ currentStep' = StageSteps[genRuns[r].stage + 1]
  /\ UNCHANGED << clientVars, uploadVars, storeImages, processedImages, generatedModel,
                  isProcessing, isGenerating, activeTab, procRuns, nextFile, sinceReset >>

\* what the run does when generateModel has rejected: catch
GenerationCatch_Silent == UNCHANGED currentStep

GenerationCatch == currentStep' = "Model generation failed. Please try again."

\* generateModel(processedImages) settles and the run returns: try or catch,
\* then finally
GenerateModelSettles(r) ==
  /\ r \in InFlight(genRuns)
  /\ genRuns[r].stage = StageCount
  /\ \E resolves \in BOOLEAN :
       /\ genRuns' = [genRuns EXCEPT ![r] = ReturnedGeneration]
       /\ IF resolves
          THEN /\ generatedModel' = [present |-> TRUE, sourceImages |-> genRuns[r].snapshot]
               /\ currentStep' = "3D model generation complete!"
          ELSE /\ generatedModel' = generatedModel
               /\ GenerationCatch
  /\ isGenerating' = FALSE
  /\ UNCHANGED << clientVars, uploadVars, storeImages, processedImages, isProcessing,
                  activeTab, procRuns, nextFile, sinceReset >>

\* the page is loaded: no reconstruction is running, no request was made
StoreStart ==
  /\ UploadInit
  /\ reqFiles = NoRequest

StoreNext ==
  \/ addImages
  \/ removeImage
  \/ reset
  \/ SwitchTab
  \/ ClickProcess
  \/ \E r \in 1..MaxProcRuns : ProcessImageDone(r)
  \/ ClickGenerate
  \/ \E r \in 1..MaxGenRuns : GenerationStage(r)
  \/ \E r \in 1..MaxGenRuns : GenerateModelSettles(r)

StoreSpec == StoreStart /\ [][StoreNext]_vars

\* the stage timers fire and generateModel settles
StoreLiveSpec ==
  /\ StoreSpec
  /\ \A r \in 1..MaxGenRuns :
       WF_vars(GenerationStage(r) \/ GenerateModelSettles(r))

(***************************************************************************)
(* Properties                                                              *)
(***************************************************************************)
Returned == outcome \in {"Succeeded", "FallenBack"}

Contains(s, x) == \E k \in 1..Len(s) : s[k] = x

\* C1: generateModel never raises to its caller: whatever the stages do, the
\* returned promise resolves to a model and never rejects.
C1_NeverRejects == outcome # "Rejected"

\* C2: every invocation of generateModel eventually completes: it reaches
\* Succeeded or FallenBack and returns a model.
C2_EventuallyCompletes == <>Returned

\* C3: every model generateModel returns has a non-empty vertex buffer whose
\* length is a multiple of 3.
C3_NonEmptyVertexBuffer ==
  Returned => (model.vertices > 0 /\ model.vertices % 3 = 0)

\* the reconstruction validated no point and a model was still returned
C3_Witness ==
  /\ outcome = "Succeeded"
  /\ Contains(trace, "triangulate")
  /\ SumN(reconstruction.points3D) = 0
  /\ model.vertices = BoxVertexFloats

\* the position of a step in the order of the stages
StageRank(step) ==
  CASE step = "extract" -> 1
    [] step = "match" -> 2
    [] step = "intrinsics" -> 3
    [] step = "selectPair" -> 4
    [] step = "essential" -> 5
    [] step = "poses" -> 5
    [] step = "recoverPose" -> 6
    [] step = "triangulate" -> 7
    [] step = "assemble" -> 8

StagesInOrder ==
  \A k \in 1..(Len(trace) - 1) : StageRank(trace[k]) < StageRank(trace[k + 1])

\* a stage has failed: it threw, or the geometric stage reported a failure
StageFailed == Len(logged) > 0 \/ reconstruction.errorMessage # ""

\* C4: the stages run in the order Extracting, Matching, PairSelecting,
\* PoseEstimating, Triangulating, Assembling, each at most once, and once a
\* stage has failed no later stage runs: the run ends in FallenBack.
C4_StagesInOrderFailureFallsBack ==
  /\ StagesInOrder
  /\ StageFailed => (~Contains(trace, "assemble") /\ outcome # "Succeeded")

\* the greatest number of correspondences any image pair has in ms
RECURSIVE BestPairCount(_, _)
BestPairCount(ms, keys) ==
  IF keys = <<>> THEN 0
  ELSE Max(SumN(MatchesOfKey(ms, Head(keys))), BestPairCount(ms, Tail(keys)))

GeometricStageDone == impl = "opencv" /\ intrinsics # <<>> /\ pc \in {"checkResult", "done"}

\* C5: whenever the best-connected pair has fewer than 50 correspondences the
\* geometric stage fails with the insufficient-feature-matches reason and the
\* fallback model is returned, whether the total is below 50 or not.
C5_BestPairBelow50IsInsufficient ==
  (GeometricStageDone /\ BestPairCount(matches, PairKeys(matches, <<>>)) < MinPairMatches)
    => /\ reconstruction = Failure(InsufficientMsg)
       /\ pc = "done" => (outcome = "FallenBack" /\ model = createFallbackModel)

\* C6: an empty essential matrix aborts the reconstruction before pose
\* recovery and triangulation, the geometric stage reports failure, and the
\* fallback model is returned.
C6_EmptyEssentialAborts ==
  essential = "empty"
    => /\ ~Contains(trace, "recoverPose")
       /\ ~Contains(trace, "triangulate")
       /\ RData = <<>> /\ cameras = <<>>
       /\ pc \in {"checkResult", "done"}
       /\ reconstruction = Failure(TwoViewFailedMsg)
       /\ pc = "done" => (outcome = "FallenBack" /\ model = createFallbackModel)

\* findEssentialMat returned an empty matrix and generateModel has returned
C6_Witness == essential = "empty" /\ pc = "done" /\ outcome = "FallenBack"

\* C7: when no triangulated point survives validation the geometric stage
\* result is a failure with a reason and the fallback is returned: the run
\* is not reported as a successful reconstruction.
C7_ZeroPointsIsFailure ==
  (GeometricStageDone /\ Contains(trace, "triangulate")
     /\ SumN(reconstruction.points3D) = 0)
    => /\ ~reconstruction.success
       /\ reconstruction.errorMessage # ""
       /\ outcome # "Succeeded"

\* C8: an image that cannot be decoded is skipped, wherever it stands in the
\* list: a decode failure forces the fallback only if fewer than 2 images
\* survive.
C8_DecodeFailureFatalOnlyBelowTwo ==
  (outcome = "FallenBack" /\ Contains(logged, "exception: image load"))
    => Len(imageFeatures) < 2

\* (R.X + t).z with R and t as cv.recoverPose returned them
TrueDepthCam2(position) == RowMajorTimes(RData, position)[3] + tData[3]

\* C9: every Point3D of a reconstruction result has reprojection error below
\* 2.0, positive depth in camera 1 and in camera 2 ((R.X + t).z > 0 for the
\* recovered R and t), and a homogeneous weight that is not near zero.
C9_AcceptedPointsValid ==
  \A k \in 1..Len(reconstruction.points3D) :
    LET p == reconstruction.points3D[k]
    IN  /\ ErrorBelow(p.reprojectionError, ReprojThreshold)
        /\ p.position[3] > 0
        /\ TrueDepthCam2(p.position) > 0
        /\ Abs(p.W) > WEpsilon

\* C10: every correspondence the matcher returns had a second-nearest
\* candidate and its nearest distance is below 0.75 times the second-nearest.
C10_RatioTestHolds ==
  \A k \in 1..Len(matches) :
    /\ matches[k].second # Infinity
    /\ impl = "opencv" => matches[k].size >= 2
    /\ matches[k].distance * RatioDen < RatioNum * matches[k].second

\* the matches of image pair (i, j) in ms, and their number
MatchesOfPair(ms, i, j) ==
  SelectSeq(ms, LAMBDA m : m.image1Index = i /\ m.image2Index = j)

PairCount(ms, i, j) == SumN(MatchesOfPair(ms, i, j))

\* where pair (i, j) is first met in ms (Len(ms) + 1 when it is not)
FirstMet(ms, i, j) ==
  IF MatchesOfPair(ms, i, j) = <<>> THEN Len(ms) + 1
  ELSE CHOOSE k \in 1..Len(ms) :
         /\ ms[k].image1Index = i /\ ms[k].image2Index = j
         /\ \A h \in 1..(k - 1) : ~(ms[h].image1Index = i /\ ms[h].image2Index = j)

ImagePairs == { q \in (0..(MaxImages - 1)) \X (0..(MaxImages - 1)) : q[1] < q[2] }

\* C11: findBestInitialPair returns the pair with the greatest count among
\* the pairs with at least 50 correspondences, the first met of them on a
\* tie, no pair exactly when none reaches 50, and with it exactly the
\* matches of that pair.
C11_BestPairSelected ==
  Contains(trace, "selectPair") =>
    /\ (initPair = NoPair)
         <=> (\A q \in ImagePairs : PairCount(matches, q[1], q[2]) < MinPairMatches)
    /\ initPair # NoPair =>
         LET best == PairCount(matches, initPair.image1, initPair.image2)
         IN  /\ best >= MinPairMatches
             /\ \A q \in ImagePairs :
                  /\ PairCount(matches, q[1], q[2]) <= best
                  /\ PairCount(matches, q[1], q[2]) = best
                       => FirstMet(matches, initPair.image1, initPair.image2)
                            <= FirstMet(matches, q[1], q[2])
             /\ initPair.matches = MatchesOfPair(matches, initPair.image1, initPair.image2)

\* two pairs tie for the greatest count, a third has fewer, and a pair was selected
C11_Witness ==
  /\ Contains(trace, "selectPair")
  /\ initPair # NoPair
  /\ \E q \in ImagePairs :
       /\ q # <<initPair.image1, initPair.image2>>
       /\ PairCount(matches, q[1], q[2])
            = PairCount(matches, initPair.image1, initPair.image2)
  /\ \E q \in ImagePairs :
       /\ PairCount(matches, q[1], q[2]) >= MinPairMatches
       /\ PairCount(matches, q[1], q[2])
            < PairCount(matches, initPair.image1, initPair.image2)

\* what two runs are compared on: the reconstruction without the colours
Uncoloured(result) ==
  [ success |-> result.success, errorMessage |-> result.errorMessage,
    cameras |-> result.cameras,
    points3D |-> [ k \in 1..Len(result.points3D) |->
                     [ position |-> result.points3D[k].position,
                       n |-> result.points3D[k].n ] ] ]

\* the geometric stage of a second run on the same matches and intrinsics,
\* the estimator giving the answers it gave the first run (essential, RData,
\* tData, inlierCount, points4D), and Math.random() giving shade
SecondReconstruction(shade) ==
  IF SumN(matches) < MinTotalMatches THEN Failure(InsufficientMsg)
  ELSE IF findBestInitialPair(matches) = NoPair THEN Failure(NoPairMsg)
  ELSE IF AbortsOnEssential(essential) THEN Failure(TwoViewFailedMsg)
  ELSE IF inlierCount < MinInliers THEN Failure(TwoViewFailedMsg)
  ELSE TwoViewSuccess(
         IF Contains(logged, "OpenCV triangulation error") THEN <<>>
         ELSE triangulatePointsOpenCV(points4D, Camera1(intrinsics),
                                      Camera2(RData, tData, intrinsics), intrinsics,
                                      shade),
         << Camera1(intrinsics), Camera2(RData, tData, intrinsics) >>)

\* the stage path of that second run, second being its reconstruction
SecondPath(second) ==
  <<"extract", "match", "intrinsics">>
  \o ( IF SumN(matches) < MinTotalMatches THEN <<>> ELSE <<"selectPair">> )
  \o ( IF findBestInitialPair(matches) = NoPair THEN <<>> ELSE <<"essential">> )
  \o ( IF findBestInitialPair(matches) = NoPair \/ AbortsOnEssential(essential)
       THEN <<>> ELSE <<"recoverPose">> )
  \o ( IF second.success THEN <<"triangulate", "assemble">>
       ELSE IF findBestInitialPair(matches) # NoPair /\ ~AbortsOnEssential(essential)
               /\ inlierCount >= MinInliers
       THEN <<"triangulate">> ELSE <<>> )

\* C12: two runs on identical inputs with a deterministic estimator take the
\* same stage path and produce the same camera poses, the same point counts
\* and the same outcome, whatever values are drawn for the point colours.
C12_SameResultWhateverColours ==
  (GeometricStageDone /\ pc = "done") =>
    \A shade \in Shades :
      \A second \in { SecondReconstruction(shade) } :
        /\ Uncoloured(second) = Uncoloured(reconstruction)
        /\ SumN(second.points3D) = SumN(reconstruction.points3D)
        /\ SecondPath(second) = trace
        /\ outcome = (IF second.success THEN "Succeeded" ELSE "FallenBack")
        /\ second.success =>
             generateMeshFromPointCloud(second.points3D).vertices = model.vertices

\* a run that accepted points and drew the higher shade for them
C12_Witness ==
  /\ GeometricStageDone /\ pc = "done" /\ outcome = "Succeeded"
  /\ Len(reconstruction.points3D) > 0
  /\ reconstruction.points3D[1].color = 9
  /\ RData # Matrix3Identity

\* C13 as stated: the fallback model is the same on every failure path and
\* has the counts of a unit cube with 8 vertices and 12 triangles.
C13_FallbackIsEightVertexCube ==
  outcome = "FallenBack" =>
    /\ model = createFallbackModel
    /\ model.vertices = 3 * 8
    /\ model.faces = 3 * 12

\* C13, amended: the fallback model is the same on every failure path,
\* whatever the images and the stage that failed, and has the counts of
\* THREE.BoxGeometry(1, 1, 1): 24 vertices (72 floats) and 12 triangles
\* (36 indices).
C13_FallbackIsFixedBox ==
  outcome = "FallenBack" =>
    /\ model.geometry = "BoxGeometry"
    /\ model.vertices = 3 * 24
    /\ model.faces = 3 * 12

\* the fallback was returned after pose recovery failed on a full input list
C13_Witness ==
  /\ outcome = "FallenBack"
  /\ Contains(trace, "recoverPose")
  /\ Len(images) = MaxImages

\* C14: a ReconstructionResult returned by the geometric stage has exactly 2
\* camera poses when its success flag is true, and no points, no cameras and
\* a non-empty failure reason when it is false.
C14_ResultShape ==
  GeometricStageDone =>
    IF reconstruction.success
    THEN Len(reconstruction.cameras) = 2
    ELSE /\ reconstruction.points3D = <<>>
         /\ reconstruction.cameras = <<>>
         /\ reconstruction.errorMessage # ""

\* pose recovery fell short of inliers and the failure result was returned
C14_Witness ==
  /\ GeometricStageDone
  /\ ~reconstruction.success
  /\ Contains(trace, "recoverPose")
  /\ inlierCount < MinInliers

\* a successful result with points was returned
C14_WitnessSuccess ==
  /\ GeometricStageDone
  /\ reconstruction.success
  /\ SumN(reconstruction.points3D) > 0

\* C15: every model generateModel returns, from a reconstruction or from the
\* fallback, carries the count of source images, equal to the number of
\* images the run was given.
C15_CarriesSourceImageCount ==
  Returned => model.sourceImageCount = Len(images)

C17_AllHandlesReleased == (impl = "opencv" /\ Returned) => handles = {}

\* C18: once pose recovery has reported fewer than 50 inliers, no camera pose
\* and no 3D point exists, triangulation has not run and does not run, and the
\* run ends with the fallback model.
C18_FewInliersAbort ==
  (impl = "opencv" /\ RData # <<>> /\ inlierCount < 50) =>
    /\ cameras = <<>>
    /\ points4D = <<>>
    /\ ~reconstruction.success
    /\ reconstruction.cameras = <<>>
    /\ reconstruction.points3D = <<>>
    /\ ~Contains(trace, "triangulate")
    /\ pc \in {"checkResult", "done"}
    /\ pc = "done" => (outcome = "FallenBack" /\ model = createFallbackModel)

\* pose recovery reported 49 inliers and the run has returned
C18_Witness ==
  /\ impl = "opencv" /\ RData # <<>> /\ inlierCount = 49
  /\ pc = "done" /\ outcome = "FallenBack"

\* the unit vectors: a matrix is known by what it does to them
UnitVectors == { <<1, 0, 0>>, <<0, 1, 0>>, <<0, 0, 1>> }

\* C19: in every successful two-view reconstruction camera 1 is the identity
\* pose at the origin, camera 2's stored rotation maps a vector v to R*v for
\* the R pose recovery returned, and camera 2's position is -(R^T)*t.
C19_CameraPoses ==
  (impl = "opencv" /\ cameras # <<>>) =>
    /\ cameras[1].position = <<0, 0, 0>>
    /\ cameras[1].translation = <<0, 0, 0>>
    /\ \A v \in UnitVectors : ApplyMatrix3(v, cameras[1].rotation) = v
    /\ \A v \in UnitVectors :
         ApplyMatrix3(v, cameras[2].rotation) = RowMajorTimes(RData, v)
    /\ cameras[2].position = VNeg(RowMajorTimes(Matrix3Transpose(RData), tData))

\* C20: for an image of w x h pixels the intrinsics are fx = fy = 1.2 w,
\* cx = w/2, cy = h/2; the camera matrix K handed to OpenCV holds the rows
\* (fx, 0, cx), (0, fy, cy), (0, 0, 1); projectPoint maps a point on the
\* optical axis to (cx, cy) and one at unit offset to (cx + fx, cy + fy); and
\* unprojectPoint sends the pixel (cx, cy) along the optical axis.
C20_IntrinsicsAgree ==
  (impl = "opencv" /\ intrinsics # <<>>) =>
    \E dims \in ImageDims :
      LET fx == (12 * dims[1]) \div 10
          fy == fx
          cx == dims[1] \div 2
          cy == dims[2] \div 2
          camera == Camera1(intrinsics)
      IN  /\ intrinsics = Matrix3Set(fx, 0, cx,
                                     0, fy, cy,
                                     0, 0, 1)
          /\ CameraMatrixK(intrinsics) = << fx, 0, cx, 0, fy, cy, 0, 0, 1 >>
          /\ projectPoint(<<0, 0, 1>>, camera, intrinsics)
               = [ xn |-> cx, yn |-> cy, den |-> 1 ]
          /\ projectPoint(<<1, 1, 1>>, camera, intrinsics)
               = [ xn |-> cx + fx, yn |-> cy + fy, den |-> 1 ]
          /\ unprojectPoint(<<cx, cy>>, camera, intrinsics).direction
               = << 0, 0, fx * fy >>

\* every column of points4D is a point in front of both cameras whose matched
\* features are its exact images under P1 and P2
ExactlyMatched ==
  /\ impl = "opencv" /\ cameras # <<>> /\ points4D # <<>>
  /\ \A k \in 1..Len(points4D) :
       /\ HasWeight(points4D[k])
       /\ Dehomogenize(points4D[k])[3] > 0
       /\ TrueDepthCam2(Dehomogenize(points4D[k])) > 0
       /\ ProjectsExactly(
            ProjectionMatrixTimes(CameraMatrixK(intrinsics), Matrix3Identity,
                                  <<0, 0, 0>>, Dehomogenize(points4D[k])),
            points4D[k].point1)
       /\ ProjectsExactly(
            ProjectionMatrixTimes(CameraMatrixK(intrinsics), RData, tData,
                                  Dehomogenize(points4D[k])),
            points4D[k].point2)

\* C21: a 3D point in front of both cameras whose matched features are its
\* exact images under the projection matrices of the triangulation has
\* reprojection error 0 in both cameras and is accepted.
C21_ExactPointReprojectsToZero ==
  ExactlyMatched =>
    \A k \in 1..Len(points4D) :
      \A e \in { calculateReprojectionError(Dehomogenize(points4D[k]), points4D[k],
                                            cameras[1], cameras[2], intrinsics) } :
        /\ e.den1 # 0 /\ e.den2 # 0
        /\ e.sq1 = 0 /\ e.sq2 = 0
        /\ AcceptsColumn(points4D[k], cameras[1], cameras[2], intrinsics)

\* how many times x occurs in the sequence s
Occurrences(s, x) == Cardinality({ k \in 1..Len(s) : s[k] = x })

\* C22: intrinsics are estimated at most once in a run, from the first image,
\* and only after the seed pair has been selected; both cameras of the
\* two-view stage carry these intrinsics.
C22_IntrinsicsOnceAfterSeedPair ==
  impl = "opencv" =>
    /\ Occurrences(trace, "intrinsics") <= 1
    /\ intrinsics # <<>> =>
         /\ Len(images) > 0 /\ images[1] = "ok"
         /\ initPair # NoPair
    /\ cameras # <<>> =>
         /\ cameras[1].intrinsicMatrix = intrinsics
         /\ cameras[2].intrinsicMatrix = intrinsics

\* C28: every match names, as image1Index and image2Index, the source images
\* its two points were extracted from (the imageIndex of their feature sets),
\* also when images were skipped during extraction; the seed pair's indices
\* name the feature sets its matches were made from.
C28_MatchIndicesNameSourceImages ==
  impl = "opencv" =>
  /\ \A k \in 1..Len(matches) :
        /\ matches[k].image1Index = matches[k].point1.imageIndex
        /\ matches[k].image2Index = matches[k].point2.imageIndex
  /\ initPair # NoPair =>
        \A k \in 1..Len(initPair.matches) :
          /\ initPair.image1 + 1 \in 1..Len(imageFeatures)
          /\ initPair.image2 + 1 \in 1..Len(imageFeatures)
          /\ initPair.matches[k].point1.imageIndex
               = imageFeatures[initPair.image1 + 1].imageIndex
          /\ initPair.matches[k].point2.imageIndex
               = imageFeatures[initPair.image2 + 1].imageIndex

\* the correspondences a knnMatch entry or an emitted match stands for
Run(q, t, d, n) == [queryIdx |-> q, trainIdx |-> t, distance |-> d, n |-> n]

RECURSIVE CountRuns(_)
CountRuns(S) ==
  IF S = {} THEN 0 ELSE LET x == CHOOSE y \in S : TRUE IN x.n + CountRuns(S \ {x})

\* the matches of A's features that pass the ratio test and the cutoff
OneDirectional(r) ==
  { Run(r.knn[k].queryIdx, r.knn[k].trainIdx, r.knn[k].d1, r.knn[k].n) :
      k \in { k \in 1..Len(r.knn) :
                /\ r.knn[k].size >= 2
                /\ RatioDen * r.knn[k].d1 < RatioNum * r.knn[k].d2
                /\ r.knn[k].d1 < MaxHammingDistance } }

\* those of them whose reverse is the nearest neighbour found matching B to A
SymmetricChecked(r) ==
  { run \in OneDirectional(r) :
      \E l \in 1..Len(r.back) :
        /\ r.back[l].size > 0
        /\ r.back[l].queryIdx = run.trainIdx
        /\ r.back[l].trainIdx = run.queryIdx }

Accepted(r) ==
  IF CountRuns(SymmetricChecked(r)) > 20 THEN SymmetricChecked(r) ELSE OneDirectional(r)

\* what the matcher pushed for the pair of r
Emitted(r) ==
  { Run(matches[k].queryIdx, matches[k].trainIdx, matches[k].distance, matches[k].n) :
      k \in { k \in 1..Len(matches) :
                matches[k].image1Index = r.i /\ matches[k].image2Index = r.j } }

EmittedSeq(r) ==
  SelectSeq(matches, LAMBDA m : m.image1Index = r.i /\ m.image2Index = r.j)

\* how many of the correspondences of the accepted run a were emitted
EmittedOf(r, a) ==
  CountRuns({ e \in Emitted(r) : e.queryIdx = a.queryIdx /\ e.trainIdx = a.trainIdx })

\* C24: for a pair the matcher emits at most 200 correspondences, in
\* ascending order of distance, and no match of the pair's accepted set that
\* was dropped has a strictly smaller distance than an emitted one.
C24_BestMatchesEmitted ==
  knnResults # NoKnn =>
    LET out == EmittedSeq(knnResults)
    IN  /\ SumN(out) <= 200
        /\ \A k, l \in 1..Len(out) : k < l => out[k].distance <= out[l].distance
        /\ \A a \in Accepted(knnResults) :
             EmittedOf(knnResults, a) < a.n =>
               \A k \in 1..Len(out) : ~ (a.distance < out[k].distance)

C24_Witness ==
  /\ knnResults # NoKnn
  /\ SumN(EmittedSeq(knnResults)) = 200
  /\ \E k, l \in 1..Len(EmittedSeq(knnResults)) :
       EmittedSeq(knnResults)[k].distance < EmittedSeq(knnResults)[l].distance
  /\ \E a \in Accepted(knnResults) : EmittedOf(knnResults, a) < a.n
  /\ knnResults.knn[1].d1 > knnResults.knn[Len(knnResults.knn)].d1

\* C25: in every correspondence of the matcher's output queryIdx is a valid
\* index into the features of the first feature set and trainIdx one into
\* those of the second, and point1 and point2 are the features at them.
C25_IndicesValid ==
  impl = "opencv" =>
    \A k \in 1..Len(matches) :
      LET m == matches[k]
          first == imageFeatures[m.image1Index + 1]
          second == imageFeatures[m.image2Index + 1]
      IN  /\ m.queryIdx >= 0 /\ m.queryIdx + m.n <= first.keypoints
          /\ m.trainIdx >= 0 /\ m.trainIdx + m.n <= second.keypoints
          /\ m.point1 = [imageIndex |-> first.imageIndex, index |-> m.queryIdx]
          /\ m.point2 = [imageIndex |-> second.imageIndex, index |-> m.trainIdx]

C25_Witness ==
  /\ knnResults # NoKnn
  /\ \E k \in 1..Len(matches) :
       /\ matches[k].queryIdx > 0
       /\ matches[k].trainIdx > matches[k].queryIdx
       /\ matches[k].point2.index = matches[k].trainIdx

\* C26: at any time at most one generate3DModel run is in flight, whatever
\* the interleaving of the user's actions with the completion of image
\* processing and model generation.
C26_OneGenerationInFlight == Cardinality(InFlight(genRuns)) <= 1

\* C27: from a reset until the user adds images the store is in its initial
\* state: no images, no processed images, no model, not processing, not
\* generating; a run that was in flight at the reset writes nothing into it.
C27_ResetStaysClean ==
  sinceReset =>
    /\ storeImages = <<>>
    /\ processedImages = <<>>
    /\ generatedModel = NoGeneratedModel
    /\ ~isProcessing
    /\ ~isGenerating

\* the elements of a sequence
Range(s) == { s[k] : k \in 1..Len(s) }

\* C29: whenever no image processing is running and processing has produced
\* entries, processedImages is consistent with images: the original of every
\* processed entry is in images, and every image has a processed entry.
C29_ProcessedMatchesImages ==
  (~isProcessing /\ InFlight(procRuns) = {} /\ processedImages # <<>>) =>
    /\ Range(processedImages) \subseteq Range(storeImages)
    /\ Range(storeImages) \subseteq Range(processedImages)

====
